---- MODULE Spec2Model ----
(***************************************************************************)
(* Model of src/algorithm/sort_n_smallest.cpp: selection of the n-th       *)
(* smallest element by quickselect (Lomuto partition, last element as the  *)
(* pivot) and by a bounded max-heap kept in the first n positions.         *)
(* Arrays are 0-based in the source; a sequence position is index + 1.     *)
(***************************************************************************)
EXTENDS Integers, Sequences, FiniteSets

VARIABLES alg, orig, nums, n, low, high, pivotIndex, i, pc, ret, calls

vars == <<alg, orig, nums, n, low, high, pivotIndex, i, pc, ret, calls>>

\* ---------------------------------------------------------------- bounds
MaxLen == 4
MaxVal == 2

Values == (0 - 1)..MaxVal
Ranks == (0 - 1)..(MaxLen + 1)

RECURSIVE SeqsUpTo(_)
SeqsUpTo(k) == IF k = 0 THEN {<<>>}
               ELSE SeqsUpTo(k - 1) \cup [1..k -> Values]

Inputs == SeqsUpTo(MaxLen)

\* cap of the counter of partition calls
MaxCalls == MaxLen + 2

\* ------------------------------------------------------- program constants
\* return -1;  // Invalid input
Invalid == -1

\* return -1;  // Should never reach here with valid input
NotFound == -1

\* ----------------------------------------------------------- array access
At(arr, k) == arr[k + 1]

Put(arr, k, v) == [arr EXCEPT ![k + 1] = v]

Swap(arr, a, b) == [arr EXCEPT ![a + 1] = arr[b + 1], ![b + 1] = arr[a + 1]]

\* C++ integer division truncates toward zero
CDiv(a, b) == IF a >= 0 THEN a \div b ELSE 0 - ((0 - a) \div b)

\* ------------------------------------------------------------- quickselect
RankInvalidNeg(k, size) == k < 0 \/ k > size

RankInvalidGe(k, size) == k <= 0 \/ k >= size

\* n <= 0 || n > nums.size()
RankInvalid(k, size) == k <= 0 \/ k > size

GoesLeftStrict(v, pivot) == v < pivot

\* arr[j] <= pivot
GoesLeft(v, pivot) == v <= pivot

\* the for loop of partition from index j on, with i the index of the last
\* element known to be <= pivot; the result is <<arr, i>> at loop exit
RECURSIVE PartitionLoop(_, _, _, _, _)
PartitionLoop(arr, j, hi, ii, pivot) ==
    IF j < hi
    THEN IF GoesLeft(At(arr, j), pivot)
         THEN PartitionLoop(Swap(arr, ii + 1, j), j + 1, hi, ii + 1, pivot)
         ELSE PartitionLoop(arr, j + 1, hi, ii, pivot)
    ELSE <<arr, ii>>

\* partition(arr, low, high): <<array after the call, returned pivot index>>
Partition(arr, lo, hi) ==
    LET r == PartitionLoop(arr, lo, hi, lo - 1, At(arr, hi))
    IN  <<Swap(r[1], r[2] + 1, hi), r[2] + 1>>

FoundOffByOne(p, k) == p = k

\* pivotIndex == k - 1
Found(p, k) == p = k - 1

NextHighSame(p) == p

NextHighSkip(p) == p - 2

\* high = pivotIndex - 1
NextHigh(p) == p - 1

\* low = pivotIndex + 1
NextLow(p) == p + 1

\* lines 14-17 and 67: the rank check, then quickSelect(nums, 0, size-1, n)
QuickselectEntry ==
    /\ alg = "quickselect"
    /\ pc = "entry"
    /\ IF RankInvalid(n, Len(nums))
       THEN /\ pc' = "ret_invalid"
            /\ ret' = Invalid
            /\ UNCHANGED <<low, high>>
       ELSE /\ pc' = "loop"
            /\ low' = 0
            /\ high' = Len(nums) - 1
            /\ UNCHANGED ret
    /\ UNCHANGED <<alg, orig, nums, n, pivotIndex, i, calls>>

\* lines 46-62: one evaluation of the while condition and the body it guards
QuickSelectIter ==
    /\ alg = "quickselect"
    /\ pc = "loop"
    /\ calls < MaxCalls
    /\ IF low <= high
       THEN LET r == Partition(nums, low, high)
                p == r[2]
            IN  /\ nums' = r[1]
                /\ pivotIndex' = p
                /\ calls' = calls + 1
                /\ IF Found(p, n)
                   THEN /\ pc' = "ret_found"
                        /\ ret' = At(r[1], p)
                        /\ UNCHANGED <<low, high>>
                   ELSE IF p > n - 1
                   THEN /\ high' = NextHigh(p)
                        /\ UNCHANGED <<low, pc, ret>>
                   ELSE /\ low' = NextLow(p)
                        /\ UNCHANGED <<high, pc, ret>>
       ELSE /\ pc' = "ret_fallthrough"
            /\ ret' = NotFound
            /\ UNCHANGED <<nums, low, high, pivotIndex, calls>>
    /\ UNCHANGED <<alg, orig, n, i>>

\* -------------------------------------------------------------------- heap
\* heapifyDown(arr, start, end) from the node parent on
RECURSIVE HeapifyLeftOnly(_, _, _)
HeapifyLeftOnly(arr, parent, end) ==
    LET child == 2 * parent + 1
    IN  IF child > end THEN arr
        ELSE IF At(arr, parent) >= At(arr, child) THEN arr
        ELSE HeapifyLeftOnly(Swap(arr, parent, child), child, end)

RECURSIVE HeapifyFrom(_, _, _)
HeapifyFrom(arr, parent, end) ==
    LET left == 2 * parent + 1
    IN  IF left > end THEN arr
        ELSE LET child == IF left + 1 <= end /\ At(arr, left + 1) > At(arr, left)
                          THEN left + 1 ELSE left
             IN  IF At(arr, parent) >= At(arr, child) THEN arr
                 ELSE HeapifyFrom(Swap(arr, parent, child), child, end)

heapifyDown(arr, start, end) == HeapifyFrom(arr, start, end)

BuildStartLate(k) == CDiv(k - 3, 2)

\* (n - 2) / 2
BuildStart(k) == CDiv(k - 2, 2)

AdmitLarger(v, root) == v > root

\* nums[i] < nums[0]
Admit(v, root) == v < root

\* lines 77-82 and the initialisation of the build loop (line 113)
HeapEntry ==
    /\ alg = "heap"
    /\ pc = "entry"
    /\ IF RankInvalid(n, Len(nums))
       THEN /\ pc' = "ret_invalid"
            /\ ret' = Invalid
            /\ UNCHANGED i
       ELSE /\ pc' = "build"
            /\ i' = BuildStart(n)
            /\ UNCHANGED ret
    /\ UNCHANGED <<alg, orig, nums, n, low, high, pivotIndex, calls>>

\* lines 113-115: one evaluation of the build loop's condition and its body;
\* at exit the scan loop is initialised (line 118)
HeapBuildIter ==
    /\ alg = "heap"
    /\ pc = "build"
    /\ IF i >= 0
       THEN /\ nums' = heapifyDown(nums, i, n - 1)
            /\ i' = i - 1
            /\ UNCHANGED pc
       ELSE /\ pc' = "scan"
            /\ i' = n
            /\ UNCHANGED nums
    /\ UNCHANGED <<alg, orig, n, low, high, pivotIndex, ret, calls>>

\* lines 118-131: one evaluation of the scan loop's condition and its body;
\* at exit the root is returned
HeapScanIter ==
    /\ alg = "heap"
    /\ pc = "scan"
    /\ IF i < Len(nums)
       THEN /\ nums' = IF Admit(At(nums, i), At(nums, 0))
                       THEN heapifyDown(Put(nums, 0, At(nums, i)), 0, n - 1)
                       ELSE nums
            /\ i' = i + 1
            /\ UNCHANGED <<pc, ret>>
       ELSE /\ pc' = "ret_root"
            /\ ret' = At(nums, 0)
            /\ UNCHANGED <<nums, i>>
    /\ UNCHANGED <<alg, orig, n, low, high, pivotIndex, calls>>

\* ------------------------------------------------------------ specification
\* a caller passes a sequence and a rank; the callee works on a private copy
Init ==
    /\ alg \in {"quickselect", "heap"}
    /\ orig \in Inputs
    /\ nums = orig
    /\ n \in Ranks
    /\ low = 0
    /\ high = 0
    /\ pivotIndex = 0
    /\ i = 0
    /\ pc = "entry"
    /\ ret = 0
    /\ calls = 0

Next ==
    \/ QuickselectEntry
    \/ QuickSelectIter
    \/ HeapEntry
    \/ HeapBuildIter
    \/ HeapScanIter

Spec == Init /\ [][Next]_vars

\* a call runs to completion: the sequential program always takes its next step
FairSpec == Spec /\ WF_vars(Next)

\* partition on its own: any array and any sub-range 0 <= low <= high < length
PartitionCall ==
    /\ alg = "partition"
    /\ pc = "call"
    /\ LET r == Partition(nums, low, high)
       IN  /\ nums' = r[1]
           /\ pivotIndex' = r[2]
    /\ pc' = "returned"
    /\ UNCHANGED <<alg, orig, n, low, high, i, ret, calls>>

\* one element more than the selection inputs, so that a sub-range can have
\* elements on both sides of the pivot and positions outside it on both sides
PartitionInputs == SeqsUpTo(MaxLen + 1)

InitPartition ==
    /\ alg = "partition"
    /\ orig \in PartitionInputs
    /\ nums = orig
    /\ low \in 0..(Len(orig) - 1)
    /\ high \in low..(Len(orig) - 1)
    /\ n = 0
    /\ pivotIndex = 0
    /\ i = 0
    /\ pc = "call"
    /\ ret = 0
    /\ calls = 0

NextPartition == PartitionCall

SpecPartition == InitPartition /\ [][NextPartition]_vars

\* ------------------------------------------------------- reference notions
\* std::sort of the test harness: ascending insertion of each element
RECURSIVE Insert(_, _)
Insert(s, v) ==
    IF s = <<>> THEN <<v>>
    ELSE IF v <= Head(s) THEN <<v>> \o s
    ELSE <<Head(s)>> \o Insert(Tail(s), v)

RECURSIVE Sorted(_)
Sorted(s) == IF s = <<>> THEN <<>> ELSE Insert(Sorted(Tail(s)), Head(s))

Range(s) == {s[k] : k \in DOMAIN s}

Prefix(s, k) == SubSeq(s, 1, k)

Valid == n >= 1 /\ n <= Len(orig)

Returned == pc \in {"ret_invalid", "ret_found", "ret_fallthrough", "ret_root"}

HasDuplicates(s) == \E a, b \in DOMAIN s : a # b /\ s[a] = s[b]

\* max-heap order over the indices 0..k-1: every node is >= its children
IsMaxHeap(arr, k) ==
    \A c \in 1..(k - 1) : At(arr, (c - 1) \div 2) >= At(arr, c)

\* ------------------------------------------------------------------ claims

\* C1: for every S and every n with 1 <= n <= |S|, quickselect returns
\* sorted(S)[n-1], through its "found" return.
QuickselectCorrect ==
    (alg = "quickselect" /\ Valid /\ Returned)
        => (pc = "ret_found" /\ ret = Sorted(orig)[n])

QuickselectCorrectWitness ==
    /\ alg = "quickselect"
    /\ pc = "ret_found"
    /\ HasDuplicates(orig)
    /\ Len(orig) >= 3
    /\ calls >= 2
    /\ nums # orig
    /\ ret = Sorted(orig)[n]

\* C2: for every S and every n with 1 <= n <= |S|, the heap algorithm returns
\* sorted(S)[n-1], which is the value at position 0 after the build and scan.
HeapCorrect ==
    (alg = "heap" /\ Valid /\ Returned)
        => (pc = "ret_root" /\ ret = Sorted(orig)[n] /\ At(nums, 0) = Sorted(orig)[n])

HeapCorrectWitness ==
    /\ alg = "heap"
    /\ pc = "ret_root"
    /\ HasDuplicates(orig)
    /\ n > 1
    /\ n < Len(orig)
    /\ At(nums, 0) # At(orig, 0)
    /\ ret = Sorted(orig)[n]

\* C3: for every S (the empty one included) and every n <= 0 or n > |S|, both
\* algorithms return -1 straight from the entry check: no partition call, no
\* heap step, and the working copy untouched.
InvalidRankRejected ==
    (~Valid) =>
        /\ pc \in {"entry", "ret_invalid"}
        /\ nums = orig
        /\ calls = 0
        /\ (pc = "ret_invalid" => ret = -1)

InvalidRankRejectedWitness ==
    /\ pc = "ret_invalid"
    /\ ret = -1
    /\ Len(orig) > 0
    /\ n > Len(orig)

\* C4: after a call with valid n to either algorithm, the first n positions of
\* the working copy hold, as a multiset, the n smallest values of S.
PrefixProperty ==
    (Valid /\ Returned) => Sorted(Prefix(nums, n)) = Prefix(Sorted(orig), n)

PrefixPropertyWitness ==
    /\ alg = "quickselect"
    /\ Valid
    /\ Returned
    /\ n < Len(orig)
    /\ Sorted(Prefix(nums, n)) = Prefix(Sorted(orig), n)
    /\ Sorted(Prefix(orig, n)) # Prefix(Sorted(orig), n)

\* C5: when the heap algorithm returns for a valid n, position 0 holds the
\* returned value and is >= every value at positions 1..n-1.
HeapRootIsMax ==
    (alg = "heap" /\ Valid /\ Returned) =>
        /\ At(nums, 0) = ret
        /\ \A k \in 1..(n - 1) : At(nums, 0) >= At(nums, k)

HeapRootIsMaxWitness ==
    /\ alg = "heap"
    /\ pc = "ret_root"
    /\ n >= 3
    /\ n < Len(orig)
    /\ At(nums, 0) = ret
    /\ \E k \in 1..(n - 1) : At(orig, 0) < At(orig, k)

\* C6: the quickselect loop terminates: the pivot index lies in [low, high]
\* and is excluded from the next range, so every partition call strictly
\* shrinks the range, and at most |S| partition calls are made (duplicates of
\* the pivot included).
RangeSize == high - low + 1

QuickselectShrinks ==
    (alg = "quickselect" /\ pc = "loop" /\ pc' = "loop") =>
        /\ pivotIndex' \in low..high
        /\ pivotIndex' \notin low'..high'
        /\ low <= low'
        /\ high' <= high
        /\ high' - low' < high - low

QuickselectTerminates ==
    /\ [](alg = "quickselect" =>
            /\ calls <= Len(orig)
            /\ (pc = "loop" => (RangeSize >= 1 /\ calls + RangeSize <= Len(orig))))
    /\ [][QuickselectShrinks]_vars
    /\ (alg = "quickselect" ~> Returned)

QuickselectTerminatesWitness ==
    /\ alg = "quickselect"
    /\ pc = "ret_found"
    /\ HasDuplicates(orig)
    /\ Len(orig) >= 3
    /\ calls = Len(orig)

\* C7: the sentinel -1 collides with a legitimate result: a returned -1 tells
\* that n was outside [1, |S|] only when -1 is not a value of S.
SentinelAmbiguity ==
    (Returned /\ ret = -1 /\ -1 \notin Range(orig)) => ~Valid

SentinelAmbiguityWitness ==
    /\ Returned
    /\ Valid
    /\ ret = -1
    /\ Sorted(orig)[n] = -1
    /\ pc \in {"ret_found", "ret_root"}

\* C8: partition(arr, low, high) with 0 <= low <= high < length returns p in
\* low..high with arr[p] the former arr[high]; positions low..p-1 hold values
\* <= the pivot, positions p+1..high values > the pivot; the multiset of
\* low..high is unchanged and no position outside low..high is modified.
PartitionPost ==
    pc = "returned" =>
        LET pivot == At(orig, high)
        IN  /\ pivotIndex \in low..high
            /\ At(nums, pivotIndex) = pivot
            /\ \A k \in low..(pivotIndex - 1) : At(nums, k) <= pivot
            /\ \A k \in (pivotIndex + 1)..high : At(nums, k) > pivot
            /\ Sorted(SubSeq(nums, low + 1, high + 1))
                   = Sorted(SubSeq(orig, low + 1, high + 1))
            /\ Len(nums) = Len(orig)
            /\ \A k \in 0..(Len(orig) - 1) :
                   (k < low \/ k > high) => At(nums, k) = At(orig, k)

PartitionPostWitness ==
    /\ pc = "returned"
    /\ low > 0
    /\ high < Len(orig) - 1
    /\ pivotIndex > low
    /\ pivotIndex < high
    /\ nums # orig
    /\ \E k \in low..(pivotIndex - 1) : At(nums, k) = At(nums, pivotIndex)

\* C9: in quickselect with valid n, whenever the loop condition is evaluated,
\* 0 <= low <= n-1 <= high <= |S|-1, every value left of low is <= every
\* value in low..high and every value right of high is >= every value in
\* low..high; so the loop never exits through its condition and the
\* fall-through return is never taken.
QuickselectLoopInvariant ==
    /\ (alg = "quickselect" /\ pc = "loop") =>
          /\ 0 <= low
          /\ low <= n - 1
          /\ n - 1 <= high
          /\ high <= Len(nums) - 1
          /\ \A a \in 0..(low - 1) : \A b \in low..high : At(nums, a) <= At(nums, b)
          /\ \A c \in (high + 1)..(Len(nums) - 1) :
                 \A b \in low..high : At(nums, c) >= At(nums, b)
    /\ pc # "ret_fallthrough"

QuickselectLoopInvariantWitness ==
    /\ alg = "quickselect"
    /\ pc = "loop"
    /\ calls >= 2
    /\ low > 0
    /\ high < Len(nums) - 1
    /\ low < high

\* C10: in the heap algorithm with valid n, after the build and after every
\* scan iteration, positions 0..n-1 are a max-heap and hold the n smallest of
\* the original values at the positions scanned so far; positions n..|S|-1 are
\* never written; an element is admitted only when strictly smaller than the
\* root, whose value it replaces in the prefix.
HeapScanState ==
    (alg = "heap" /\ Valid) =>
        /\ Len(nums) = Len(orig)
        /\ \A k \in n..(Len(orig) - 1) : At(nums, k) = At(orig, k)
        /\ (pc \in {"scan", "ret_root"} =>
               /\ IsMaxHeap(nums, n)
               /\ Sorted(Prefix(nums, n)) = Prefix(Sorted(Prefix(orig, i)), n))

HeapScanAdmits ==
    (alg = "heap" /\ pc = "scan" /\ nums' # nums) =>
        /\ At(nums, i) < At(nums, 0)
        /\ Sorted(Prefix(nums', n)) = Sorted(Prefix(Put(nums, 0, At(nums, i)), n))

HeapScanInvariant == []HeapScanState /\ [][HeapScanAdmits]_vars

HeapScanInvariantWitness ==
    /\ alg = "heap"
    /\ pc = "scan"
    /\ n >= 3
    /\ i > n
    /\ IsMaxHeap(nums, n)
    /\ ~IsMaxHeap(orig, n)
    /\ Sorted(Prefix(nums, n)) # Sorted(Prefix(orig, n))

====
